---- MODULE Spec2Model ----
(***************************************************************************)
(* A model of src/src/helpers.rs: download() streaming a response body     *)
(* through AsyncFileWriter (a bounded mpsc channel feeding one blocking    *)
(* worker that owns the destination file), with the scopeguard that        *)
(* removes the destination on every exit that is not the success return.   *)
(*                                                                         *)
(* One state machine: the download future (pc), the worker closure (wpc),  *)
(* the channel between them, the JoinHandle of the worker, and the part of *)
(* the filesystem download touches (the parent directory and the           *)
(* destination path).                                                      *)
(*                                                                         *)
(* Library behaviour the code relies on, as modelled:                      *)
(*  - tokio mpsc: send waits for one of Capacity permits; dropping or      *)
(*    closing the Receiver makes every pending and later send fail;        *)
(*    blocking_recv gives None once every Sender is gone and the buffer    *)
(*    is empty.                                                            *)
(*  - tokio::select! without `biased` polls its branches in an arbitrary   *)
(*    order, so when both are ready either may win.                        *)
(*  - JoinHandle::abort on a spawn_blocking task cancels it only if it has *)
(*    not started running.                                                 *)
(*  - a closure's captures (rx, file) are dropped when it returns, before  *)
(*    the runtime makes its return value visible to the JoinHandle.        *)
(*  - std::fs::File::flush does nothing and returns Ok.                    *)
(*  - locals are dropped in reverse order of declaration on return, on     *)
(*    unwinding and when the future is dropped.                            *)
(***************************************************************************)
EXTENDS Naturals, Sequences, FiniteSets

VARIABLES
    url,          \* input: "ok" or "malformed" (what Url::parse makes of it)
    body,         \* input: the chunks the response body stream serves, in order
    fs0,          \* input: the filesystem before the call, [dir, exists, data]
    path,         \* input: the destination path
    dirExists,    \* the destination's parent directory exists
    exists,       \* the destination path names a file
    data,         \* bytes of the destination file (of its inode once unlinked)
    pc,           \* where the download future is
    pos,          \* chunks the body stream has yielded so far
    cur,          \* the chunk passed to the write call in progress
    result,       \* what download returned: "none", "Ok" or the error
    gets,         \* GET requests issued
    streamErr,    \* the body stream has yielded a read error
    guard,        \* the scopeguard: "none", "armed", "disarmed", "ran"
    disarms,      \* times ScopeGuard::into_inner was called
    removeFailed, \* the guard's fs::remove_file returned an error
    writer,       \* the AsyncFileWriter: "none", "live", "done", "dropped"
    txOpen,       \* the mpsc::Sender is alive
    rxOpen,       \* the mpsc::Receiver is neither closed nor dropped
    queue,        \* the chunks buffered in the channel, oldest first
    accepted,     \* the chunks of the write calls that returned Ok, in order
    writeRet,     \* outcome of the latest write call
    doneRet,      \* outcome of the done call
    doneCalled,   \* done() has been called
    wpc,          \* where the worker closure is
    inhand,       \* the chunk blocking_recv handed to the worker
    wres,         \* the closure's return value (the JoinHandle's output)
    join,         \* the JoinHandle: "none", "pending", "ready", "taken"
    flushed,      \* the worker has flushed the file
    normalExit,   \* the worker's receive loop ended normally (recv gave None)
    ext,          \* a call of extract: its arguments, progress and result
    conf          \* a call of confirm: the lines on stdin, progress and result

vars == <<url, body, fs0, path, dirExists, exists, data, pc, pos, cur, result, gets,
          streamErr, guard, disarms, removeFailed, writer, txOpen, rxOpen,
          queue, accepted, writeRet, doneRet, doneCalled, wpc, inhand, wres, join,
          flushed, normalExit, ext, conf>>

(***************************************************************************)
(* Program constant and bounds                                             *)
(***************************************************************************)
\* mpsc::channel::<Bytes>(100)
Capacity == 100

\* longest body among the exhaustively enumerated short bodies
MaxChunks == 2

\* chunks the long body serves beyond the channel's capacity
Extra == 1

\* chunk contents of the short bodies; bytes are numbers
Chunks == {<<>>, <<1>>, <<2, 3>>}

\* the io::Error values a write to the file can fail with
WriteErrs == {"ENOSPC", "EIO"}

\* content of a destination file that exists before the call
OldData == <<9>>

RECURSIVE SeqsUpTo(_)
SeqsUpTo(n) ==
    IF n = 0 THEN {<<>>}
    ELSE LET S == SeqsUpTo(n - 1)
         IN  S \cup {Append(s, c) : s \in {t \in S : Len(t) = n - 1}, c \in Chunks}

ShortBodies == SeqsUpTo(MaxChunks)

\* a body longer than the channel holds; chunk i is the one byte i
LongBody == [i \in 1..(Capacity + Extra) |-> <<i>>]

FreshFs == [dir |-> TRUE, exists |-> FALSE, data |-> <<>>]

FsStates == {[dir |-> FALSE, exists |-> FALSE, data |-> <<>>],
             FreshFs,
             [dir |-> TRUE, exists |-> TRUE, data |-> OldData]}

\* the calls explored: every short body on every filesystem with either url,
\* and the long body on a fresh filesystem
\* a destination path with a parent directory
FilePath == "d/f"

\* destination paths for which Path::parent gives None
RootPaths == {"/", ""}

\* Path::parent: the directory of a file path, None for the root or the
\* empty path
Parent(p) == IF p \in RootPaths THEN "None" ELSE "d"

Inputs ==
    {[url |-> u, body |-> b, fs |-> f, path |-> FilePath] :
        u \in {"ok", "malformed"}, b \in ShortBodies, f \in FsStates}
    \cup {[url |-> "ok", body |-> LongBody, fs |-> FreshFs, path |-> FilePath]}
    \cup {[url |-> u, body |-> <<<<1>>>>, fs |-> FreshFs, path |-> p] :
              u \in {"ok", "malformed"}, p \in RootPaths}

(***************************************************************************)
(* Pure helpers                                                            *)
(***************************************************************************)
RECURSIVE Concat(_)
Concat(chunks) ==
    IF chunks = <<>> THEN <<>> ELSE Head(chunks) \o Concat(Tail(chunks))

IsPrefix(s, t) == Len(s) <= Len(t) /\ SubSeq(t, 1, Len(s)) = s

\* faulty variant of Enqueue: the chunk jumps the queue
EnqueueFront(q, c) == <<c>> \o q

\* tx.send(bytes): the chunk goes to the back of the channel
Enqueue(q, c) == Append(q, c)

\* faulty variant of RecvChunk: the newest chunk is handed out
RecvChunkNewest(q) == q[Len(q)]

\* rx.blocking_recv(): the oldest chunk, and what stays buffered
RecvChunk(q) == Head(q)
RecvRest(q) == Tail(q)

\* faulty variant of WriteAll: a single write call, which comes up one
\* byte short on a chunk of more than one byte
WriteAllShort(d, c) == d \o SubSeq(c, 1, IF Len(c) > 1 THEN Len(c) - 1 ELSE Len(c))

\* file.write_all(&bytes) succeeding: the whole chunk is appended
WriteAll(d, c) == d \o c

\* file.write_all(&bytes) failing after k bytes went out
WritePartial(d, c, k) == d \o SubSeq(c, 1, k)

\* faulty variant of SendReady: one permit too many
SendReadyOffByOne == rxOpen /\ Len(queue) <= Capacity

\* the send branch of write's select can complete: a permit is free
SendReady == rxOpen /\ Len(queue) < Capacity

\* faulty variant of Wait: the worker's result is discarded
WaitIgnoresResult(out) == "Ok"

\* AsyncFileWriter::wait: the JoinHandle's output as an io::Result
Wait(out) == IF out = "Cancelled" THEN "Other" ELSE out

\* JoinHandle::abort on a spawn_blocking task: it only prevents a task that
\* has not started from starting; a running closure is not interrupted
Abort(w) == IF w = "spawned" THEN "cancelled" ELSE w

(***************************************************************************)
(* Initial state: before download is polled                                *)
(***************************************************************************)
DownloadInit(in) ==
    /\ url = in.url
    /\ body = in.body
    /\ fs0 = in.fs
    /\ path = in.path
    /\ dirExists = in.fs.dir
    /\ exists = in.fs.exists
    /\ data = in.fs.data
    /\ pc = "start"
    /\ pos = 0
    /\ cur = <<>>
    /\ result = "none"
    /\ gets = 0
    /\ streamErr = FALSE
    /\ guard = "none"
    /\ disarms = 0
    /\ removeFailed = FALSE
    /\ writer = "none"
    /\ txOpen = FALSE
    /\ rxOpen = FALSE
    /\ queue = <<>>
    /\ accepted = <<>>
    /\ writeRet = "none"
    /\ doneRet = "none"
    /\ doneCalled = FALSE
    /\ wpc = "none"
    /\ inhand = <<>>
    /\ wres = "none"
    /\ join = "none"
    /\ flushed = FALSE
    /\ normalExit = FALSE

inputVars == <<url, body, fs0, path>>
fsVars == <<dirExists, exists, data>>
guardVars == <<guard, disarms, removeFailed>>
chanVars == <<txOpen, rxOpen, queue>>
workerVars == <<wpc, inhand, wres, flushed, normalExit>>
writerVars == <<writer, accepted, writeRet, doneRet, doneCalled, join>>
otherCalls == <<ext, conf>>

\* no call of extract, no call of confirm
NoExtract == [fmt |-> "Bin", entries |-> <<>>, opened |-> FALSE, i |-> 0,
              written |-> {}, result |-> "idle"]
NoConfirm == [lines |-> <<>>, i |-> 0, result |-> "idle"]

Init ==
    /\ \E in \in Inputs : DownloadInit(in)
    /\ ext = NoExtract
    /\ conf = NoConfirm

\* what no exit of download touches
exitFrame == <<url, body, fs0, path, dirExists, data, pos, cur, gets, disarms,
               accepted, doneCalled, inhand, wres, flushed, normalExit>>

(***************************************************************************)
(* Leaving download with the guard armed                                   *)
(***************************************************************************)
\* faulty variant of RunGuard: the guard is forgotten instead of run
RunGuardForgotten == UNCHANGED <<guard, exists, removeFailed>>

\* the guard's closure: fs::remove_file(path).ok(), its error discarded
RunGuard ==
    \E ok \in BOOLEAN :
        /\ guard' = "ran"
        /\ exists' = (exists /\ ~ok)
        /\ removeFailed' = ~(exists /\ ok)

\* dropping the AsyncFileWriter: the handle aborts the task, then tx goes;
\* a cancelled task drops the closure, and with it rx and the file
DropWriter ==
    /\ writer' = "dropped"
    /\ join' = "none"
    /\ wpc' = Abort(wpc)
    /\ txOpen' = FALSE
    /\ rxOpen' = (rxOpen /\ Abort(wpc) # "cancelled")
    /\ queue' = IF Abort(wpc) = "cancelled" THEN <<>> ELSE queue

\* faulty variant of Unwind: a failed removal replaces the error returned
UnwindReportsCleanup(newpc, res) ==
    /\ pc' = newpc
    /\ \E ok \in BOOLEAN :
          /\ guard' = "ran"
          /\ exists' = (exists /\ ~ok)
          /\ removeFailed' = ~(exists /\ ok)
          /\ result' = IF exists /\ ok THEN res ELSE "RemoveFile"
    /\ writer' = "dropped"
    /\ join' = "none"
    /\ wpc' = IF wpc = "spawned" THEN "cancelled" ELSE wpc
    /\ txOpen' = FALSE
    /\ rxOpen' = (rxOpen /\ wpc # "spawned")
    /\ queue' = IF wpc = "spawned" THEN <<>> ELSE queue

\* locals go in reverse order of declaration: the guard, then the writer
Unwind(newpc, res) ==
    /\ pc' = newpc
    /\ result' = res
    /\ RunGuard
    /\ DropWriter

\* a panic either unwinds, running the destructors, or (panic = "abort")
\* ends the process, and the worker thread with it
Panic ==
    \/ Unwind("panicked", "none")
    \/ /\ pc' = "aborted"
       /\ wpc' = "killed"
       /\ UNCHANGED <<result, guard, exists, removeFailed, writer, join,
                      txOpen, rxOpen, queue>>

(***************************************************************************)
(* download                                                                *)
(***************************************************************************)
\* Url::parse(url)?, then the GET is sent
DownloadStart ==
    /\ pc = "start"
    /\ IF url = "malformed"
       THEN pc' = "err" /\ result' = "UrlParse" /\ gets' = gets
       ELSE pc' = "get" /\ result' = result /\ gets' = gets + 1
    /\ UNCHANGED <<inputVars, fsVars, pos, cur, streamErr, guardVars,
                   chanVars, workerVars, writerVars>>
    /\ UNCHANGED otherCalls

\* faulty variant of New: the channel is made and the worker spawned before
\* the directory and the file are created
NewSpawnsFirst(o) ==
    /\ o # "unwrap"
    /\ o = "mkdir" => ~dirExists
    /\ dirExists' = (dirExists \/ o # "mkdir")
    /\ txOpen' = (o = "ok")
    /\ rxOpen' = TRUE
    /\ queue' = <<>>
    /\ wpc' = "spawned"
    /\ IF o = "ok"
       THEN /\ exists' = TRUE
            /\ data' = <<>>
            /\ join' = "pending"
            /\ writer' = "live"
            /\ guard' = "armed"
            /\ pc' = "next"
            /\ result' = result
       ELSE /\ pc' = "err"
            /\ result' = IF o = "mkdir" THEN "CreateDir" ELSE "CreateFile"
            /\ UNCHANGED <<exists, data, join, writer, guard>>

\* the outcomes of AsyncFileWriter::new: path.parent().unwrap() panics,
\* create_dir_all fails, File::create fails, or the writer is made
NewOutcomes == {"unwrap", "mkdir", "create", "ok"}

\* AsyncFileWriter::new(path) with outcome o, and on success the guard; a
\* path without parent makes unwrap panic before anything is done (the
\* panic unwinds out of download or aborts the process)
New(o) ==
    /\ (o = "unwrap") <=> (Parent(path) = "None")
    /\ o = "mkdir" => ~dirExists
    /\ dirExists' = (dirExists \/ o \in {"create", "ok"})
    /\ IF o = "unwrap"
       THEN /\ pc' \in {"panicked", "aborted"}
            /\ result' = result
            /\ UNCHANGED <<exists, data, chanVars, wpc, join, writer, guard>>
       ELSE IF o = "ok"
       THEN /\ exists' = TRUE
            /\ data' = <<>>
            /\ txOpen' = TRUE
            /\ rxOpen' = TRUE
            /\ queue' = <<>>
            /\ wpc' = "spawned"
            /\ join' = "pending"
            /\ writer' = "live"
            /\ guard' = "armed"
            /\ pc' = "next"
            /\ result' = result
       ELSE /\ pc' = "err"
            /\ result' = IF o = "mkdir" THEN "CreateDir" ELSE "CreateFile"
            /\ UNCHANGED <<exists, data, chanVars, wpc, join, writer, guard>>

\* faulty variant of HttpFailure: the request is sent again
HttpFailureRetries ==
    /\ pc' = "start"
    /\ result' = result
    /\ UNCHANGED <<fsVars, chanVars, wpc, join, writer, guard>>

\* faulty variant of HttpFailure: the file was created before the status
\* was looked at
HttpFailureAfterCreate ==
    /\ pc' = "err"
    /\ result' = "Http"
    /\ dirExists' = TRUE
    /\ exists' = TRUE
    /\ data' = <<>>
    /\ UNCHANGED <<chanVars, wpc, join, writer, guard>>

\* the request fails or the status is not a success: map_err(..)? returns
\* BinstallError::Http, nothing else having been done
HttpFailure ==
    /\ pc' = "err"
    /\ result' = "Http"
    /\ UNCHANGED <<fsVars, chanVars, wpc, join, writer, guard>>

\* the response arrives; on a success status the writer and the guard are made
DownloadGet ==
    /\ pc = "get"
    /\ \E r \in {"success", "status", "transport"} :
          IF r = "success"
          THEN \E o \in NewOutcomes : New(o)
          ELSE HttpFailure
    /\ UNCHANGED <<inputVars, pos, cur, gets, streamErr, disarms, removeFailed,
                   accepted, writeRet, doneRet, doneCalled, inhand, wres,
                   flushed, normalExit>>
    /\ UNCHANGED otherCalls

\* bytes_stream.next().await: a chunk (write is called), a read error, or
\* the end of the body (done is called, which drops tx first)
StreamNext ==
    /\ pc = "next"
    /\ \/ /\ pos < Len(body)
          /\ pos' = pos + 1
          /\ cur' = body[pos + 1]
          /\ pc' = "write"
          /\ writeRet' = "none"
          /\ UNCHANGED <<inputVars, fsVars, result, gets, streamErr, guardVars,
                         chanVars, workerVars, writer, accepted, doneRet,
                         doneCalled, join>>
       \/ /\ pos = Len(body)
          /\ pc' = "done"
          /\ doneCalled' = TRUE
          /\ txOpen' = FALSE
          /\ UNCHANGED <<inputVars, fsVars, pos, cur, result, gets, streamErr,
                         guardVars, rxOpen, queue, workerVars, writer,
                         accepted, writeRet, doneRet, join>>
       \/ /\ streamErr' = TRUE
          /\ Unwind("err", "Read")
          /\ UNCHANGED <<exitFrame, writeRet, doneRet>>
    /\ UNCHANGED otherCalls

\* write's send branch wins the select: the chunk is enqueued, or the
\* channel is closed and expect() panics
WriteSend ==
    /\ pc = "write"
    /\ IF rxOpen
       THEN /\ SendReady
            /\ queue' = Enqueue(queue, cur)
            /\ accepted' = Append(accepted, cur)
            /\ writeRet' = "Ok"
            /\ pc' = "next"
            /\ UNCHANGED <<inputVars, fsVars, pos, cur, result, gets,
                           streamErr, guardVars, txOpen, rxOpen, workerVars,
                           writer, doneRet, doneCalled, join>>
       ELSE /\ writeRet' = "panic"
            /\ Panic
            /\ UNCHANGED <<exitFrame, streamErr, doneRet>>
    /\ UNCHANGED otherCalls

\* faulty variant of WriteTask: download drops the error that write returned
\* and goes on with the next chunk
WriteTaskErrorIgnored ==
    /\ pc = "write"
    /\ join = "ready"
    /\ writeRet' = Wait(wres)
    /\ pc' = "next"
    /\ UNCHANGED <<result, guard, exists, removeFailed, writer, join, txOpen,
                   rxOpen, queue, wpc>>
    /\ UNCHANGED <<exitFrame, streamErr, doneRet, otherCalls>>

\* write's task branch wins the select: the worker's error is returned (and
\* download returns it), or the worker returned Ok and map's closure panics
WriteTask ==
    /\ pc = "write"
    /\ join = "ready"
    /\ IF Wait(wres) = "Ok"
       THEN writeRet' = "panic" /\ Panic
       ELSE writeRet' = Wait(wres) /\ Unwind("err", Wait(wres))
    /\ UNCHANGED <<exitFrame, streamErr, doneRet>>
    /\ UNCHANGED otherCalls

\* done().await resolves: handle.await gave the worker's result; Ok disarms
\* the guard and download returns Ok, an error is returned through `?`
DoneJoin ==
    /\ pc = "done"
    /\ join = "ready"
    /\ doneRet' = Wait(wres)
    /\ IF Wait(wres) = "Ok"
       THEN /\ guard' = "disarmed"
            /\ disarms' = disarms + 1
            /\ writer' = "done"
            /\ join' = "taken"
            /\ pc' = "ok"
            /\ result' = "Ok"
            /\ UNCHANGED <<exists, removeFailed, chanVars, wpc>>
       ELSE /\ Unwind("err", Wait(wres))
            /\ disarms' = disarms
    /\ UNCHANGED <<inputVars, dirExists, data, pos, cur, gets, streamErr,
                   accepted, writeRet, doneCalled, inhand, wres, flushed,
                   normalExit>>
    /\ UNCHANGED otherCalls

\* the caller drops the download future at one of its await points
DropFuture ==
    /\ pc \in {"get", "next", "write", "done"}
    /\ IF pc = "get"
       THEN /\ pc' = "dropped"
            /\ UNCHANGED <<result, guard, exists, removeFailed, writer, join,
                           wpc, chanVars>>
       ELSE Unwind("dropped", "none")
    /\ UNCHANGED <<exitFrame, streamErr, writeRet, doneRet>>
    /\ UNCHANGED otherCalls

(***************************************************************************)
(* The worker: the closure given to task::spawn_blocking                   *)
(***************************************************************************)
\* a blocking-pool thread picks the task up and enters the loop
WorkerStart ==
    /\ wpc = "spawned"
    /\ wpc' = "recv"
    /\ UNCHANGED <<inputVars, fsVars, pc, pos, cur, result, gets, streamErr,
                   guardVars, chanVars, writerVars, inhand, wres, flushed,
                   normalExit>>
    /\ UNCHANGED otherCalls

\* rx.blocking_recv() returns Some(bytes)
WorkerRecv ==
    /\ wpc = "recv"
    /\ queue # <<>>
    /\ inhand' = RecvChunk(queue)
    /\ queue' = RecvRest(queue)
    /\ wpc' = "write"
    /\ UNCHANGED <<inputVars, fsVars, pc, pos, cur, result, gets, streamErr,
                   guardVars, txOpen, rxOpen, writerVars, wres, flushed,
                   normalExit>>
    /\ UNCHANGED otherCalls

\* faulty variant of AfterWriteError: the loop goes on to the next receive
AfterWriteErrorContinues == "recv"

\* where `?` takes the closure when write_all fails: out of the loop
AfterWriteError == "returned"

\* file.write_all(&*bytes)?: the chunk is written, or the write fails with e
\* after k of its bytes and the closure returns Err(e), dropping rx and file
WorkerWrite ==
    /\ wpc = "write"
    /\ \/ /\ data' = WriteAll(data, inhand)
          /\ wpc' = "recv"
          /\ inhand' = <<>>
          /\ UNCHANGED <<wres, rxOpen, queue>>
       \/ \E e \in WriteErrs, k \in 0..(Len(inhand) - 1) :
             /\ inhand # <<>>
             /\ data' = WritePartial(data, inhand, k)
             /\ wres' = e
             /\ wpc' = AfterWriteError
             /\ inhand' = <<>>
             /\ rxOpen' = FALSE
             /\ queue' = <<>>
    /\ UNCHANGED <<inputVars, dirExists, exists, pc, pos, cur, result, gets,
                   streamErr, guardVars, txOpen, writerVars, flushed,
                   normalExit>>
    /\ UNCHANGED otherCalls

\* faulty variant of WorkerExit: the loop ends as soon as the channel is
\* empty, the sender still being there
WorkerExitOnEmpty ==
    /\ wpc = "recv"
    /\ queue = <<>>
    /\ normalExit' = TRUE
    /\ rxOpen' = FALSE
    /\ flushed' = TRUE
    /\ wres' = "Ok"
    /\ wpc' = "returned"
    /\ UNCHANGED <<inputVars, fsVars, pc, pos, cur, result, gets, streamErr,
                   guardVars, txOpen, queue, writerVars, inhand, otherCalls>>

\* blocking_recv() returns None (every sender dropped, nothing buffered):
\* rx.close(), file.flush()?, Ok(())
WorkerExit ==
    /\ wpc = "recv"
    /\ queue = <<>>
    /\ ~txOpen
    /\ normalExit' = TRUE
    /\ rxOpen' = FALSE
    /\ flushed' = TRUE
    /\ wres' = "Ok"
    /\ wpc' = "returned"
    /\ UNCHANGED <<inputVars, fsVars, pc, pos, cur, result, gets, streamErr,
                   guardVars, txOpen, queue, writerVars, inhand>>
    /\ UNCHANGED otherCalls

\* faulty variant of WorkerComplete: the JoinHandle is never woken
WorkerCompleteNoWake ==
    /\ wpc = "returned"
    /\ wpc' = "finished"
    /\ UNCHANGED <<inputVars, fsVars, pc, pos, cur, result, gets, streamErr,
                   guardVars, chanVars, writerVars, inhand, wres, flushed,
                   normalExit, otherCalls>>

\* the runtime stores the closure's return value and wakes the JoinHandle
WorkerComplete ==
    /\ wpc = "returned"
    /\ wpc' = "finished"
    /\ join' = IF join = "pending" THEN "ready" ELSE join
    /\ UNCHANGED <<inputVars, fsVars, pc, pos, cur, result, gets, streamErr,
                   guardVars, chanVars, writer, accepted, writeRet, doneRet,
                   doneCalled, inhand, wres, flushed, normalExit>>
    /\ UNCHANGED otherCalls

Next ==
    \/ DownloadStart
    \/ DownloadGet
    \/ StreamNext
    \/ WriteSend
    \/ WriteTask
    \/ DoneJoin
    \/ DropFuture
    \/ WorkerStart
    \/ WorkerRecv
    \/ WorkerWrite
    \/ WorkerExit
    \/ WorkerComplete

Spec == Init /\ [][Next]_vars

(***************************************************************************)
(* Properties                                                              *)
(***************************************************************************)
\* download has returned an error, or its future was dropped after the
\* guard was made
FailedOrCancelled == pc = "err" \/ (pc = "dropped" /\ guard # "none")

\* C1: whenever download returns Ok the destination file exists and holds
\* exactly the served chunks, concatenated in the order they were served.
DownloadOkContent ==
    pc = "ok" => (result = "Ok" /\ exists /\ data = Concat(body))

\* C1 is exercised: the long body, which fills the channel, was downloaded
DownloadOkLongBody == pc = "ok" /\ Len(body) > Capacity /\ Len(data) > Capacity

\* C2 as stated: after any failed or cancelled download the destination
\* path does not exist.
NoFileAfterFailure == FailedOrCancelled => ~exists

\* C2 amended: once the guard exists, a failed or cancelled download has run
\* the guard's removal, and the path is gone unless that removal failed; a
\* failure before the guard exists leaves the path and its content as they
\* were before the call.
FailureCleanup ==
    FailedOrCancelled =>
        IF guard = "none"
        THEN exists = fs0.exists /\ data = fs0.data
        ELSE guard = "ran" /\ (exists => removeFailed)

\* C2 is exercised: a write error left a partial file, which was removed
PartialFileRemoved ==
    /\ pc = "err"
    /\ result \in WriteErrs
    /\ data # <<>>
    /\ guard = "ran"
    /\ ~exists

\* C3: the guard is disarmed at most once and only after done() returned
\* Ok; when it is disarmed the worker has finished with Ok, having written
\* every received chunk and flushed; and on every error return or drop of
\* the future after the guard was made, the guard's removal has run.
GuardDiscipline ==
    /\ disarms <= 1
    /\ guard = "disarmed" =>
          /\ disarms = 1
          /\ doneRet = "Ok"
          /\ wres = "Ok"
          /\ wpc = "finished"
          /\ flushed
          /\ queue = <<>>
          /\ data = Concat(SubSeq(body, 1, pos))
    /\ disarms = 1 => guard = "disarmed"
    /\ (FailedOrCancelled /\ guard # "none") => guard = "ran"

\* C3 is exercised: the guard was disarmed after a body with data in it
GuardDisarmed == guard = "disarmed" /\ data # <<>>

\* the worker thread runs whenever it can, and the runtime polls the
\* download future whenever one of the things it awaits is ready
Fairness ==
    /\ WF_vars(WorkerStart)
    /\ WF_vars(WorkerRecv)
    /\ WF_vars(WorkerWrite)
    /\ WF_vars(WorkerExit)
    /\ WF_vars(WorkerComplete)
    /\ WF_vars(WriteSend)
    /\ WF_vars(WriteTask)
    /\ WF_vars(DoneJoin)

FairSpec == Spec /\ Fairness

\* C4 as stated: once the worker has died with a write error, a write call
\* that resolves (its future not being dropped) returns that error; it does
\* not return Ok and does not panic.
WriteAfterDeathReturnsError ==
    [][(pc = "write" /\ wres \in WriteErrs /\ pc' # "write" /\ pc' # "dropped")
          => writeRet' = wres]_vars

\* under fair scheduling no write call stays pending forever: it returns,
\* panics, or its future is dropped
WriteNeverHangs == (pc = "write") ~> (pc # "write")

\* C5 as stated: under fair scheduling every write call that is not dropped
\* eventually returns, Ok or the worker's error.
WriteEventuallyReturns ==
    (pc = "write") ~>
        (pc = "dropped" \/ writeRet \in ({"Ok", "Other"} \cup WriteErrs))

\* every write call made so far returned Ok
AllWritesOk == Len(accepted) = pos

\* C6: done() returns Ok exactly when every earlier write returned Ok and
\* the worker ended without error, and when it returns Ok every submitted
\* chunk is in the file and the worker has finished.
DoneContract ==
    doneRet # "none" =>
        /\ (doneRet = "Ok") <=> (AllWritesOk /\ wres = "Ok")
        /\ doneRet = "Ok" =>
              /\ data = Concat(accepted)
              /\ wpc = "finished"
              /\ flushed

\* C6 is exercised: done() returned Ok after two or more writes
DoneReturnedOk == doneRet = "Ok" /\ Len(accepted) >= 2 /\ data # <<>>

\* C7: at every moment the bytes the worker has written are a prefix of the
\* accepted chunks concatenated in call order; while the worker is draining,
\* written bytes, the chunk in hand and the queue make up exactly the
\* accepted chunks (none lost, repeated, reordered or merged).
WrittenIsPrefix ==
    writer # "none" =>
        /\ IsPrefix(data, Concat(accepted))
        /\ rxOpen => Concat(accepted) = data \o inhand \o Concat(queue)
        /\ Len(accepted) <= pos

\* C7 is exercised: part written, more than one chunk still queued
PartlyWritten == data # <<>> /\ Len(queue) >= 2 /\ rxOpen

\* C8: the channel never holds more than Capacity chunks, and an enqueue
\* completes only from a state with fewer than Capacity chunks buffered, so
\* a write made on a full channel waits for the worker to take a chunk.
QueueBounded ==
    /\ [](Len(queue) <= Capacity)
    /\ [][Len(queue') > Len(queue) => Len(queue) < Capacity]_vars

\* C8 is exercised: a write call is pending on a full channel
WriteBlockedOnFull ==
    pc = "write" /\ writeRet = "none" /\ Len(queue) = Capacity /\ rxOpen

\* C9 as stated: once the writer is dropped before done() was called, the
\* worker writes nothing more and never leaves its loop normally.
DropStopsWorker ==
    [][(writer = "dropped" /\ ~doneCalled) => (data' = data /\ ~normalExit')]_vars

\* C10: when download fails and the guard's removal fails too, the error
\* returned is the failing stage's: the read error of the body stream, or
\* the error the worker's write failed with.
RemovalFailureNotReported ==
    (pc = "err" /\ removeFailed) =>
        \/ result = "Read" /\ streamErr
        \/ result \in WriteErrs /\ result = wres /\ ~streamErr

\* C10 is exercised: a write error was returned and the partial file stayed
WriteErrorRemovalFailed ==
    pc = "err" /\ removeFailed /\ exists /\ result \in WriteErrs

(***************************************************************************)
(* extract                                                                 *)
(*                                                                         *)
(* An archive is the sequence of its entries; an entry has a path (its     *)
(* components) and is sound or corrupt. tar::Archive::unpack skips an      *)
(* entry whose path has a `..` component and goes on; ZipArchive::extract  *)
(* returns an error at an entry whose path leaves the directory            *)
(* (enclosed_name gives None). Symbolic links are not modelled.            *)
(***************************************************************************)
\* entries per archive
MaxEntries == 2

Formats == {"Tar", "Tgz", "Txz", "Tzstd", "Zip", "Bin"}
ArchiveFormats == Formats \ {"Bin"}

Names == {"..", "a"}
Paths == {<<n>> : n \in Names} \cup {<<n, m>> : n \in Names, m \in Names}
Entries == [path : Paths, sound : BOOLEAN]

RECURSIVE ArchivesUpTo(_)
ArchivesUpTo(n) ==
    IF n = 0 THEN {<<>>}
    ELSE LET S == ArchivesUpTo(n - 1)
         IN  S \cup {Append(a, e) : a \in {t \in S : Len(t) = n - 1}, e \in Entries}

\* walking the components from depth d below the directory, the path
\* steps above the directory
RECURSIVE EscapesFrom(_, _)
EscapesFrom(p, d) ==
    IF p = <<>> THEN FALSE
    ELSE IF Head(p) = ".." THEN d = 0 \/ EscapesFrom(Tail(p), d - 1)
    ELSE EscapesFrom(Tail(p), d + 1)

\* the path, joined to the destination directory, resolves outside of it
Escapes(p) == EscapesFrom(p, 0)

\* faulty variant of TarSkips: every entry is unpacked
TarSkipsNothing(p) == FALSE

\* tar: an entry with a `..` component anywhere is not unpacked
TarSkips(p) == \E k \in 1..Len(p) : p[k] = ".."

\* zip: enclosed_name() is Some for a path that stays in the directory
ZipAccepts(p) == ~Escapes(p)

\* the result with which extract returns `res`
ExtractReturn(res) == [ext EXCEPT !.result = res]

\* the entry's file is created under the directory, and the next is taken
ExtractWrite(e) == [ext EXCEPT !.written = @ \cup {e.path}, !.i = @ + 1]

\* the entry's file is created, then reading or writing its data fails and
\* extract returns `res`, the file staying there with what was written
ExtractWriteFails(e, res) ==
    [ext EXCEPT !.written = @ \cup {e.path}, !.result = res]

downloadVars == <<url, body, fs0, path, dirExists, exists, data, pc, pos, cur,
                  result, gets, streamErr, guard, disarms, removeFailed,
                  writer, txOpen, rxOpen, queue, accepted, writeRet, doneRet,
                  doneCalled, wpc, inhand, wres, join, flushed, normalExit>>

\* the download state while only extract or confirm is looked at
NoDownload ==
    DownloadInit([url |-> "ok", body |-> <<>>, fs |-> FreshFs, path |-> FilePath])

ExtractInit ==
    /\ NoDownload
    /\ conf = NoConfirm
    /\ \E f \in Formats, a \in ArchivesUpTo(MaxEntries) :
          ext = [fmt |-> f, entries |-> a, opened |-> FALSE, i |-> 0,
                 written |-> {}, result |-> "none"]

\* fs::File::open(source)? (and the decoder around it) for an archive format
ExtractOpen ==
    /\ ext.result = "none"
    /\ ext.fmt \in ArchiveFormats
    /\ ~ext.opened
    /\ \/ ext' = [ext EXCEPT !.opened = TRUE]
       \/ ext' = ExtractReturn("Io")
       \/ ext.fmt \in {"Zip", "Tzstd"} /\ ext' = ExtractReturn("Decode")
    /\ UNCHANGED <<downloadVars, conf>>

\* PkgFmt::Bin: fs::copy(source, path)?, the destination being the file:
\* the copy is made, or it fails before the destination is opened, or it
\* fails after the destination was created or truncated
ExtractBin ==
    /\ ext.result = "none"
    /\ ext.fmt = "Bin"
    /\ \/ ext' = [ext EXCEPT !.written = {<<>>}, !.result = "Ok"]
       \/ ext' = ExtractReturn("Io")
       \/ ext' = [ext EXCEPT !.written = {<<>>}, !.result = "Io"]
    /\ UNCHANGED <<downloadVars, conf>>

\* unpack / extract handles the next entry of the archive: an entry that
\* cannot be read (corrupt or cut short) ends extract with an error, before
\* or after its file was created; an entry the library refuses is skipped
\* (tar) or ends extract (zip); otherwise its file is written, or an I/O
\* error ends extract before or after the file was created
ExtractEntry ==
    /\ ext.result = "none"
    /\ ext.opened
    /\ ext.i < Len(ext.entries)
    /\ LET e == ext.entries[ext.i + 1]
           unpacked == IF ext.fmt = "Zip" THEN ZipAccepts(e.path)
                                          ELSE ~TarSkips(e.path)
       IN  IF ~e.sound
           THEN \/ ext' = ExtractReturn("Decode")
                \/ unpacked /\ ext' = ExtractWriteFails(e, "Decode")
           ELSE IF ~unpacked
           THEN IF ext.fmt = "Zip"
                THEN ext' = ExtractReturn("InvalidPath")
                ELSE ext' = [ext EXCEPT !.i = @ + 1]
           ELSE \/ ext' = ExtractWrite(e)
                \/ ext' = ExtractReturn("Io")
                \/ ext' = ExtractWriteFails(e, "Io")
    /\ UNCHANGED <<downloadVars, conf>>

\* the archive is exhausted: Ok(())
ExtractFinish ==
    /\ ext.result = "none"
    /\ ext.opened
    /\ ext.i = Len(ext.entries)
    /\ ext' = ExtractReturn("Ok")
    /\ UNCHANGED <<downloadVars, conf>>

ExtractNext == ExtractOpen \/ ExtractBin \/ ExtractEntry \/ ExtractFinish

ExtractSpec == ExtractInit /\ [][ExtractNext]_vars

\* the archive given to extract has an entry whose path escapes
HasEscapingEntry ==
    \E k \in 1..Len(ext.entries) : Escapes(ext.entries[k].path)

\* C11 as stated: extract of an archive format fails whenever the archive
\* has an entry whose resolved path escapes the destination directory (and
\* writes nothing outside of it).
ExtractFailsOnEscape ==
    /\ \A p \in ext.written : ~Escapes(p)
    /\ (ext.fmt \in ArchiveFormats /\ HasEscapingEntry) => ext.result # "Ok"

\* C11 amended: extract never writes outside the destination directory;
\* with Zip it fails when the archive has an escaping entry; with the tar
\* formats such an entry is skipped, and an extract that returns Ok has
\* written exactly the entries without a `..` component.
ExtractContained ==
    /\ \A p \in ext.written : ~Escapes(p)
    /\ (ext.fmt = "Zip" /\ HasEscapingEntry) => ext.result # "Ok"
    /\ (ext.fmt \in ArchiveFormats \ {"Zip"} /\ ext.result = "Ok") =>
          ext.written = {ext.entries[k].path : k \in
                            {j \in 1..Len(ext.entries) : ~TarSkips(ext.entries[j].path)}}

\* C11 is exercised: a tar archive with an escaping entry was unpacked, the
\* entry skipped and another written
TarSkippedEscape ==
    /\ ext.fmt = "Tar"
    /\ ext.result = "Ok"
    /\ HasEscapingEntry
    /\ ext.written # {}

(***************************************************************************)
(* confirm                                                                 *)
(*                                                                         *)
(* A line is the sequence of its characters as read_line returns it, the   *)
(* newline included; at end of input read_line leaves the buffer empty.    *)
(***************************************************************************)
\* lines on stdin
MaxLines == 2

NL == "\n"

\* A character is the string of it; a character that cannot be written in
\* a string here is named by its code point.
\* str::trim removes the characters with the Unicode White_Space property
Whitespace ==
    {"\t", NL, "U+000B", "\f", "\r", " ", "U+0085", "U+00A0", "U+1680",
     "U+2000", "U+2001", "U+2002", "U+2003", "U+2004", "U+2005", "U+2006",
     "U+2007", "U+2008", "U+2009", "U+200A", "U+2028", "U+2029", "U+202F",
     "U+205F", "U+3000"}

\* a byte that is not part of any UTF-8 encoding
InvalidByte == "0xFF"

Lines == {<<"y", "e", "s", NL>>, <<"y", NL>>, <<"Y", "E", "S", NL>>, <<"Y", NL>>,
          <<"Y", "e", "s", NL>>,
          <<"n", "o", NL>>, <<"n", NL>>, <<"N", "O", NL>>, <<"N", NL>>,
          <<"N", "o", NL>>,
          <<NL>>, <<" ", "y", " ", NL>>, <<"o", "k", NL>>,
          <<"\t", "y", NL>>, <<"y", "\r", NL>>, <<"U+00A0", "n", NL>>,
          <<InvalidByte, NL>>}

RECURSIVE StdinsUpTo(_)
StdinsUpTo(n) ==
    IF n = 0 THEN {<<>>}
    ELSE LET S == StdinsUpTo(n - 1)
         IN  S \cup {Append(t, l) : t \in {u \in S : Len(u) = n - 1}, l \in Lines}

RECURSIVE TrimStart(_)
TrimStart(l) ==
    IF l # <<>> /\ Head(l) \in Whitespace THEN TrimStart(Tail(l)) ELSE l

RECURSIVE TrimEnd(_)
TrimEnd(l) ==
    IF l # <<>> /\ l[Len(l)] \in Whitespace
    THEN TrimEnd(SubSeq(l, 1, Len(l) - 1))
    ELSE l

\* str::trim
Trim(l) == TrimEnd(TrimStart(l))

\* the patterns of the match in confirm
YesTokens == {<<"y", "e", "s">>, <<"y">>, <<"Y", "E", "S">>, <<"Y">>}
NoTokens == {<<"n", "o">>, <<"n">>, <<"N", "O">>, <<"N">>, <<>>}

\* stdin().read_line(&mut input): the next line, or nothing at end of input
ReadLine == IF conf.i < Len(conf.lines) THEN conf.lines[conf.i + 1] ELSE <<>>

\* read_line returns Err for a line that is not valid UTF-8
ReadLineInvalid == \E k \in 1..Len(ReadLine) : ReadLine[k] = InvalidByte

ConfirmInit ==
    /\ NoDownload
    /\ ext = NoExtract
    /\ \E ls \in StdinsUpTo(MaxLines) :
          conf = [lines |-> ls, i |-> 0, result |-> "none"]

\* one turn of the loop: prompt, read a line, match it trimmed; when
\* read_line returns Err (the line is not UTF-8, or stdin gives an I/O
\* error) unwrap panics
ConfirmRead ==
    /\ conf.result = "none"
    /\ \E io \in {"read", "error"} :
          LET input == Trim(ReadLine)
          IN  IF io = "error" \/ ReadLineInvalid
              THEN conf' = [conf EXCEPT !.result = "panic"]
              ELSE IF input \in YesTokens
              THEN conf' = [conf EXCEPT !.result = "Ok"]
              ELSE IF input \in NoTokens
              THEN conf' = [conf EXCEPT !.result = "UserAbort"]
              ELSE conf' = [conf EXCEPT !.i = @ + 1]
    /\ UNCHANGED <<downloadVars, ext>>

ConfirmNext == ConfirmRead

ConfirmSpec == ConfirmInit /\ [][ConfirmNext]_vars

\* ASCII lower case of the characters used
LowerChar(c) ==
    CASE c = "Y" -> "y" [] c = "E" -> "e" [] c = "S" -> "s"
      [] c = "N" -> "n" [] c = "O" -> "o" [] OTHER -> c

LowerLine(l) == [k \in 1..Len(l) |-> LowerChar(l[k])]

\* the line, trimmed, is a yes token / a no token in some letter case
IsYes(l) == LowerLine(Trim(l)) \in {<<"y", "e", "s">>, <<"y">>}
IsNo(l) == LowerLine(Trim(l)) \in {<<"n", "o">>, <<"n">>, <<>>}

\* C12 as stated: confirm returns Ok at the first line that is a yes token
\* in any letter case, UserAbort at the first line that is a no token in
\* any letter case or empty, and reads on only past other lines.
ConfirmCaseInsensitive ==
    conf.result # "idle" =>
        /\ \A k \in 1..conf.i : ~IsYes(conf.lines[k]) /\ ~IsNo(conf.lines[k])
        /\ conf.result = "Ok" => IsYes(ReadLine)
        /\ conf.result = "UserAbort" => IsNo(ReadLine)

\* download has returned an error
Failed == pc = "err"

\* C13: a download sends at most one GET; once it has failed it sends no
\* request, makes no write call and no done call, and the error it returned
\* stays the one reported.
SingleRequestNoRetry ==
    /\ [](gets <= 1)
    /\ [](Failed => result \notin {"none", "Ok"})
    /\ [][Failed =>
            /\ pc' = "err"
            /\ result' = result
            /\ gets' = gets
            /\ pos' = pos
            /\ writeRet' = writeRet
            /\ accepted' = accepted
            /\ doneCalled' = doneCalled]_vars
    /\ [][result # "none" => result' = result]_vars

\* C13 is exercised: download failed on a write error after its one GET
\* and after write calls that had returned Ok
FailedAfterWrites ==
    Failed /\ result \in WriteErrs /\ gets = 1 /\ accepted # <<>>

\* done() has returned the worker's result, the worker having finished
DoneReturned == doneRet # "none" /\ doneRet = wres /\ wpc = "finished"

\* the worker drained the channel and flushed, everything accepted written
Drained == flushed /\ queue = <<>> /\ data = Concat(accepted)

\* C14 as stated: once done() has closed the producer side, under fair
\* scheduling the worker drains every queued chunk, flushes and terminates,
\* and done() returns the worker's result (unless its future is dropped).
DoneDrainsAndReturns ==
    (pc = "done") ~> (pc = "dropped" \/ (DoneReturned /\ Drained))

\* C14 amended: once done() has closed the producer side, under fair
\* scheduling the worker terminates, having drained every queued chunk and
\* flushed unless a write failed, which stops it with that error; done()
\* then returns the worker's result, and never before the worker finished.
DoneReturnsWorkerResult ==
    /\ (pc = "done") ~>
          (pc = "dropped" \/ (DoneReturned /\ (doneRet = "Ok" => Drained)))
    /\ [](doneRet # "none" => DoneReturned)

\* C14 is exercised: done() was called with chunks still in the channel
DoneCalledWithQueue == pc = "done" /\ Len(queue) >= 2 /\ ~txOpen

\* the worker's write_all has failed
WriteFailed == wres \in WriteErrs

\* C15: the worker stops at its first write error: it is out of its loop with
\* that error as its result, nothing in hand, nothing flushed, and from then
\* on the file's content, the result and the channel never change, so the
\* chunks that were queued are never written.
WorkerStopsAtFirstError ==
    /\ [](WriteFailed =>
            /\ wpc \in {"returned", "finished", "killed"}
            /\ inhand = <<>>
            /\ queue = <<>>
            /\ ~rxOpen
            /\ ~flushed
            /\ ~normalExit)
    /\ [][WriteFailed =>
            /\ data' = data
            /\ wres' = wres
            /\ queue' = queue
            /\ inhand' = inhand
            /\ flushed' = flushed]_vars

\* C15 is exercised: the write of the first chunk failed with nothing
\* written while a second accepted chunk was queued behind it
FailedWithChunkQueued ==
    /\ WriteFailed
    /\ Len(accepted) >= 2
    /\ accepted[1] # <<>>
    /\ data = <<>>

\* AsyncFileWriter::new has failed
NewFailed == result \in {"CreateDir", "CreateFile"}

\* C16: new spawns one worker and makes one channel when it succeeds and
\* neither when it fails; a worker is spawned only by a successful new, once,
\* and only the worker's write_all changes the file's content after new
\* truncated it, and only the worker flushes.
OneWorkerPerWriter ==
    /\ [](NewFailed =>
            /\ wpc = "none" /\ writer = "none" /\ join = "none"
            /\ ~txOpen /\ ~rxOpen /\ queue = <<>>)
    /\ []((writer = "none") <=> (wpc = "none"))
    /\ [][wpc' # wpc /\ wpc' = "spawned" =>
            /\ wpc = "none"
            /\ writer = "none" /\ writer' = "live"
            /\ txOpen' /\ rxOpen' /\ join' = "pending"]_vars
    /\ [][wpc # "none" =>
            wpc' # "none" /\ (wpc' = "spawned" => wpc = "spawned")]_vars
    /\ [][data' # data =>
            \/ writer = "none" /\ writer' = "live" /\ data' = <<>>
            \/ wpc = "write" /\ wpc' # "write"]_vars
    /\ [][flushed' # flushed => wpc = "recv" /\ wpc' = "returned"]_vars

\* C16 is exercised: File::create failed in new, the directory being there
CreateFileFailed == result = "CreateFile" /\ pc = "err" /\ dirExists

\* C17 as stated: while the producer side is open the worker's receiving side
\* is open, and write's send never meets a closed channel (no panic).
RxOpenWhileTxOpen == (txOpen => rxOpen) /\ writeRet # "panic"

\* C18: the worker returns Ok only after its normal exit, which happens only
\* with the producer side closed, so a write call never finds the worker
\* finished with Ok (the task branch's panic cannot be taken).
NoSuccessWhileProducerOpen ==
    /\ [](wres = "Ok" => normalExit /\ ~txOpen /\ queue = <<>>)
    /\ [](normalExit => wres = "Ok" /\ ~txOpen)
    /\ [](pc = "write" => wres # "Ok")
    /\ [][normalExit' /\ ~normalExit => ~txOpen /\ queue = <<>>]_vars

\* C18 is exercised: the worker left its loop normally after done() while
\* write calls had been accepted
ExitedAfterDone == normalExit /\ doneCalled /\ Len(accepted) >= 2

\* a write call has returned an error to download
WriteReturnedError == writeRet \notin {"none", "Ok", "panic"}

\* C19: once a write call has returned an error download is left for good
\* and calls neither write nor done; done is called only once every chunk of
\* the body went through a write that returned Ok, and at most once.
DownloadNoReuse ==
    /\ [](WriteReturnedError =>
            /\ pc = "err" /\ result = writeRet
            /\ ~doneCalled /\ doneRet = "none")
    /\ [][WriteReturnedError =>
            /\ pc' = pc
            /\ pos' = pos
            /\ writeRet' = writeRet
            /\ accepted' = accepted
            /\ doneCalled' = doneCalled
            /\ doneRet' = doneRet]_vars
    /\ [](doneCalled =>
            /\ pos = Len(body)
            /\ accepted = body
            /\ writeRet \in {"none", "Ok"})
    /\ [][doneCalled => doneCalled' /\ (pc' = "done" => pc = "done")]_vars
    /\ [][doneRet # "none" => doneRet' = doneRet]_vars

\* C19 is exercised: a write call returned an error with chunks of the body
\* still to come
WriteErrorMidBody == WriteReturnedError /\ pc = "err" /\ pos < Len(body)

\* C20: until the response status is known to be a success, and when
\* download fails on the URL or the request, the directory and the file are
\* as they were before the call and there is no writer, worker or guard.
NoMutationBeforeStatus ==
    (pc \in {"start", "get"} \/ result \in {"UrlParse", "Http"}) =>
        /\ dirExists = fs0.dir
        /\ exists = fs0.exists
        /\ data = fs0.data
        /\ wpc = "none" /\ writer = "none" /\ guard = "none"
        /\ ~txOpen /\ ~rxOpen /\ ~removeFailed

\* C20 is exercised: the request failed, a file being at the destination
HttpFailedFileKept ==
    result = "Http" /\ pc = "err" /\ fs0.exists /\ fs0.data = OldData

====
